---- MODULE Spec2Model ----
(***************************************************************************)
(* NoribenSandbox.py: host-side orchestration of a malware detonation in a *)
(* guest VM.  main() parses the options, then runs one file or walks a     *)
(* directory; run_file() drives one sample through revert, power-on,       *)
(* staging, detonation, post-exec script, archive and teardown;            *)
(* run_postexec_script() interprets the post-exec script line by line.     *)
(*                                                                         *)
(* Strings are sequences of one-character strings.  Every call of          *)
(* execute() is one step; its return code is an input drawn from RetCodes. *)
(* Host file-system probes, file-type sniffing and script lines are inputs *)
(* read at the point where the code reads them.                            *)
(***************************************************************************)
EXTENDS Integers, Sequences, FiniteSets, TLC

VARIABLES
    pc,                 \* position in main / run_file / run_postexec_script
    args,               \* argparse result, fixed after parsing
    error_tolerance,    \* int(config['error_tolerance'])
    error_count,        \* global error_count
    dontrun,            \* global dontrun
    files,              \* main: list of accepted paths
    idx,                \* main: position of the for loop in files
    malware_file,       \* run_file argument
    magic_result,       \* main: classification of the current file
    filename,           \* run_file: guest staging path
    return_code,        \* run_file / copy_file_to_zip local
    run_file_response,  \* main: value returned by the last run_file
    zip_failed,         \* run_file local
    line_no,            \* run_postexec_script: lines read so far
    line,               \* run_postexec_script: current line
    source_path,        \* run_postexec_script local
    cmds,               \* run_file's commands handed to execute(), this sample
    exit_code,          \* process exit status, NoExit while running
    line_cmds,          \* commands handed to execute() for the current line
    attempted,          \* number of run_file calls of the directory loop
    all_stage_fail,     \* every file so far was run and failed at the sample copy
    already_running,    \* the guest was running when power-on was issued
    diag,               \* diagnostic printed for the current script line
    magic_handle,       \* main: TRUE when magic.Magic() returned a handle
    sleeps,             \* arguments of time.sleep() for the current line
    post_return_code,   \* run_postexec_script: return_code of line 527
    collect_status,     \* what copy_file_to_zip returned for the current line
    post_exists,        \* run_file, line 392: file_exists(args.post) was true
    update_diag         \* run_file, lines 291-333: what the --update block
                        \* printed for the file it handled last

vars == <<pc, args, error_tolerance, error_count, dontrun, files, idx,
          malware_file, magic_result, filename, return_code,
          run_file_response, zip_failed, line_no, line, source_path, cmds,
          line_cmds, exit_code, attempted, all_stage_fail, already_running,
          diag, magic_handle, sleeps, post_return_code, collect_status,
          post_exists, update_diag>>

----------------------------------------------------------------------------
(* Bounds of the model *)

MaxTol == 2         \* error_tolerance ranges over 0..MaxTol
MaxLines == 2       \* lines of a post-exec script
MaxFlags == 2       \* optional command-line switches given together

NoExit == -1

\* what execute() may return: success, the code VBoxManage gives a
\* power request the VM is already in the state of, any other failure
RetCodes == {0, 1, 2}

----------------------------------------------------------------------------
(* String helpers: Python str operations on sequences of characters *)

LowerChar(c) ==
    CASE c = "C" -> "c"
      [] c = "T" -> "t"
      [] c = "M" -> "m"
      [] c = "P" -> "p"
      [] c = "B" -> "b"
      [] c = "K" -> "k"
      [] OTHER -> c

\* str.lower()
Lower(s) == [i \in 1..Len(s) |-> LowerChar(s[i])]

\* str.startswith(p)
StartsWith(s, p) == Len(s) >= Len(p) /\ SubSeq(s, 1, Len(p)) = p

\* p in s
Contains(s, p) ==
    \E i \in 0..(Len(s) - Len(p)) : SubSeq(s, i + 1, i + Len(p)) = p

\* s.find(p) + 1, 0 when absent
FindStr(s, p) ==
    IF Contains(s, p)
    THEN CHOOSE i \in 1..(Len(s) - Len(p) + 1) :
            /\ SubSeq(s, i, i + Len(p) - 1) = p
            /\ \A j \in 1..(i - 1) : SubSeq(s, j, j + Len(p) - 1) # p
    ELSE 0

\* s.split(sep), sep non-empty
RECURSIVE SplitStr(_, _)
SplitStr(s, sep) ==
    LET i == FindStr(s, sep)
    IN  IF i = 0 THEN <<s>>
        ELSE <<SubSeq(s, 1, i - 1)>> \o
             SplitStr(SubSeq(s, i + Len(sep), Len(s)), sep)

IsSpace(c) == c \in {" ", "\n", "\t", "\r"}

RECURSIVE LStrip(_)
LStrip(s) ==
    IF s # <<>> /\ IsSpace(s[1]) THEN LStrip(Tail(s)) ELSE s

RECURSIVE RStrip(_)
RStrip(s) ==
    IF s # <<>> /\ IsSpace(s[Len(s)]) THEN RStrip(SubSeq(s, 1, Len(s) - 1))
    ELSE s

\* str.strip()
Strip(s) == RStrip(LStrip(s))

\* os.path.join(root, fname) on a POSIX host
PathJoin(root, fname) ==
    IF root = <<>> THEN fname
    ELSE IF root[Len(root)] = "/" THEN root \o fname
    ELSE root \o <<"/">> \o fname

\* index of the last "/" of p, 0 when there is none
LastSlash(p) ==
    IF \E i \in 1..Len(p) : p[i] = "/"
    THEN CHOOSE i \in 1..Len(p) :
            p[i] = "/" /\ \A j \in (i + 1)..Len(p) : p[j] # "/"
    ELSE 0

\* os.path.split(p)[-1]
PathTail(p) == SubSeq(p, LastSlash(p) + 1, Len(p))

RECURSIVE StripSlashes(_)
StripSlashes(s) ==
    IF s # <<>> /\ s[Len(s)] = "/" /\ \E i \in 1..Len(s) : s[i] # "/"
    THEN StripSlashes(SubSeq(s, 1, Len(s) - 1))
    ELSE s

\* os.path.dirname(p)
DirName(p) == StripSlashes(SubSeq(p, 1, LastSlash(p)))

----------------------------------------------------------------------------
(* Inputs *)

\* S("...") spelled out: the strings the code compares against
PE32 == <<"P", "E", "3", "2">>
DLL == <<"D", "L", "L">>
DOSbatch == <<"D", "O", "S", " ", "b", "a", "t", "c", "h">>

\* what magic.from_file() may answer; <<>> is a failed classification
MagicResults ==
    { <<>>,
      PE32,
      PE32 \o <<" ">> \o DLL,
      DOSbatch,
      <<"d", "a", "t", "a">>,
      <<"x">> \o PE32 }

\* config['guest_malware_path']
GuestMalwarePath == <<"m", "_">>

\* candidates for --file
SingleFiles ==
    { <<"a", ".", "e", "x", "e">>,
      <<"d", "/", "s", ".", "b", ".", "c">> }

\* the directory given to --dir as os.walk() lists it: (root, filenames)
DirTree ==
    << [root |-> <<"d">>,
        fnames |-> << <<"a", ".", "e", "x", "e">>,
                      <<"a", ".", "b", "k">> >>],
       [root |-> <<"d", "/", "t", "m", "p">>,
        fnames |-> << <<"b", ".", "e", "x", "e">> >>] >>

\* values of --ignore; <<>> is "not given"
IgnoreArgs ==
    { <<>>,
      <<"t", "m", "p", ",", "b", "k">>,
      <<"T", "M", "P">>,
      <<"a", ",">> }

\* the optional switches of main()
Flags ==
    {"norevert", "nosnapshot", "update", "dontrunanything", "raw", "post",
     "nolog", "screenshot", "shutdown", "suspend", "dontrun", "skip",
     "recursive"}

FlagSets == { S \in SUBSET Flags : Cardinality(S) <= MaxFlags }

ArgSpace ==
    { a \in [on : FlagSets, vbox : BOOLEAN,
              mode : {"file", "dir", "none"},
              file : SingleFiles, ignore : IgnoreArgs] :
        \* --ignore counts as a switch; --post counts as two, the option and
        \* the script file it names
        /\ Cardinality(a.on) + (IF a.ignore = <<>> THEN 0 ELSE 1)
              + (IF "post" \in a.on THEN 1 ELSE 0) <= MaxFlags
        /\ (a.mode # "file") => a.file = <<"a", ".", "e", "x", "e">>
        /\ (a.mode # "dir") => a.ignore = <<>> }

Arg(f) == f \in args.on

\* vm_hypervisor as set by main
Hypervisor == IF args.vbox THEN "vbox" ELSE "vmw"

----------------------------------------------------------------------------
(* main: start-up *)

Init ==
    /\ pc = "start"
    /\ args \in ArgSpace
    \* config['error_tolerance'] is read by the directory loop only
    /\ error_tolerance \in (IF args.mode = "dir" THEN 0..MaxTol ELSE {0})
    /\ error_count = 0
    /\ dontrun = FALSE
    /\ files = <<>>
    /\ idx = 0
    /\ malware_file = <<>>
    /\ magic_result = <<>>
    /\ filename = <<>>
    /\ return_code = 0
    /\ run_file_response = 0
    /\ zip_failed = FALSE
    /\ line_no = 0
    /\ line = <<>>
    /\ source_path = <<>>
    /\ cmds = <<>>
    /\ exit_code = NoExit
    /\ line_cmds = <<>>
    /\ attempted = 0
    /\ all_stage_fail = TRUE
    /\ already_running = FALSE
    /\ diag = "none"
    /\ magic_handle = TRUE
    /\ sleeps = <<>>
    /\ post_return_code = 0
    /\ collect_status = 0
    /\ post_exists = FALSE
    /\ update_diag = "none"

sampleVars == <<malware_file, magic_result, filename, zip_failed>>
interpVars == <<line_no, line, source_path, diag, line_cmds, sleeps,
                post_return_code, collect_status, post_exists>>
scriptVars == <<interpVars, update_diag>>
batchVars == <<files, idx, attempted, all_stage_fail, run_file_response>>
fixedVars == <<args, error_tolerance, magic_handle>>

\* sys.exit(code), or main running off its end with code 0
SysExit(code) ==
    /\ pc' = "exit"
    /\ exit_code' = code

\* main, lines 595-695: the fatal configuration and argument checks
Startup ==
    /\ pc = "start"
    /\ error_count' = 0
    /\ \E config_found, vmrun_found, vm_pass_set, magic_ok \in BOOLEAN :
          /\ magic_handle' = magic_ok
          /\ IF ~config_found THEN
                 SysExit(14) /\ dontrun' = dontrun
             ELSE IF args.mode = "none" THEN
                 SysExit(13) /\ dontrun' = dontrun
             ELSE IF Arg("recursive") /\ args.mode # "dir" THEN
                 SysExit(13) /\ dontrun' = dontrun
             ELSE IF ~vmrun_found THEN
                 SysExit(1) /\ dontrun' = dontrun
             ELSE IF ~vm_pass_set THEN
                 SysExit(1) /\ dontrun' = Arg("dontrun")
             ELSE IF ~magic_ok /\ args.mode = "dir" THEN
                 SysExit(1) /\ dontrun' = TRUE
             ELSE
                 /\ pc' = IF args.mode = "file" THEN "single" ELSE "dir"
                 /\ exit_code' = exit_code
                 /\ dontrun' = (IF magic_ok THEN Arg("dontrun") ELSE TRUE)
    /\ UNCHANGED <<args, error_tolerance, return_code, cmds, already_running>>
    /\ UNCHANGED <<sampleVars, scriptVars, batchVars>>

\* the staging path with the base name cut at the last dot
StagingPathLastDot(file, magic, norun) ==
    LET parts == SplitStr(PathTail(file), <<".">>)
        joined[i \in 1..Len(parts)] ==
            IF i = 1 THEN parts[1] ELSE joined[i - 1] \o <<".">> \o parts[i]
        host_malware_name_base ==
            IF Len(parts) = 1 THEN parts[1] ELSE joined[Len(parts) - 1]
    IN  IF norun THEN GuestMalwarePath \o host_malware_name_base
        ELSE IF Contains(magic, DOSbatch)
        THEN GuestMalwarePath \o host_malware_name_base \o <<".", "b", "a", "t">>
        ELSE GuestMalwarePath \o host_malware_name_base \o <<".", "e", "x", "e">>

\* run_file, lines 182-189: the guest staging path
StagingPath(file, magic, norun) ==
    LET host_malware_name_base == SplitStr(PathTail(file), <<".">>)[1]
    IN  IF norun THEN GuestMalwarePath \o host_malware_name_base
        ELSE IF Contains(magic, DOSbatch)
        THEN GuestMalwarePath \o host_malware_name_base \o <<".", "b", "a", "t">>
        ELSE GuestMalwarePath \o host_malware_name_base \o <<".", "e", "x", "e">>

\* run_file, lines 172-201: entry, up to the first command
EnterRunFile(file, magic, norun) ==
    /\ malware_file' = file
    /\ magic_result' = magic
    /\ filename' = StagingPath(file, magic, norun)
    /\ zip_failed' = FALSE
    /\ cmds' = <<>>
    /\ already_running' = FALSE
    /\ pc' = "revert"

\* the forced "do not execute" without the DLL test
ForcedDontRunIgnoresDll(magic) ==
    /\ magic # <<>>
    /\ ~StartsWith(magic, PE32)
    /\ ~Contains(magic, DOSbatch)

\* main, lines 703-705: single-file mode forces "do not execute"
ForcedDontRun(magic) ==
    /\ magic # <<>>
    /\ (~StartsWith(magic, PE32) \/ Contains(magic, DLL))
    /\ ~Contains(magic, DOSbatch)

\* single-file mode that powers the VM on before it looks for the file
SingleFileStartsVmFirst ==
    /\ pc = "single"
    /\ \E found \in BOOLEAN :
          IF ~found THEN
              /\ SysExit(13)
              /\ cmds' = <<[op |-> "start", bin |-> "vmrun", arg |-> <<>>]>>
              /\ UNCHANGED <<dontrun, sampleVars, already_running>>
          ELSE IF ~magic_handle THEN
              /\ SysExit(1)
              /\ UNCHANGED <<dontrun, sampleVars, cmds, already_running>>
          ELSE
              \E m \in MagicResults :
                  /\ dontrun' = (dontrun \/ ForcedDontRun(m))
                  /\ EnterRunFile(args.file, m, dontrun \/ ForcedDontRun(m))
                  /\ exit_code' = exit_code
    /\ UNCHANGED <<fixedVars, error_count, return_code, scriptVars, batchVars>>

\* main, lines 698-710: single-file mode
SingleFile ==
    /\ pc = "single"
    /\ \E found \in BOOLEAN :
          IF ~found THEN
              /\ SysExit(13)
              /\ UNCHANGED <<dontrun, sampleVars, cmds, already_running>>
          ELSE IF ~magic_handle THEN
              \* get_magic(None, ...) raises AttributeError: traceback, status 1
              /\ SysExit(1)
              /\ UNCHANGED <<dontrun, sampleVars, cmds, already_running>>
          ELSE
              \E m \in MagicResults :
                  /\ dontrun' = (dontrun \/ ForcedDontRun(m))
                  /\ EnterRunFile(args.file, m, dontrun \/ ForcedDontRun(m))
                  /\ exit_code' = exit_code
    /\ UNCHANGED <<fixedVars, error_count, return_code, scriptVars, batchVars>>

\* the --ignore test comparing case-sensitively
IgnoredCaseSensitive(root, fname) ==
    /\ args.ignore # <<>>
    /\ \E k \in 1..Len(SplitStr(args.ignore, <<",">>)) :
          LET ignore_item == SplitStr(args.ignore, <<",">>)[k]
          IN  \/ Contains(root, ignore_item)
              \/ Contains(fname, ignore_item)

\* main, lines 727-732: does an --ignore term exclude (root, fname)
Ignored(root, fname) ==
    /\ args.ignore # <<>>
    /\ \E k \in 1..Len(SplitStr(args.ignore, <<",">>)) :
          LET ignore_item == SplitStr(args.ignore, <<",">>)[k]
          IN  \/ Contains(Lower(root), Lower(ignore_item))
              \/ Contains(Lower(fname), Lower(ignore_item))

\* main, lines 724-734: the accepted files of one directory of the walk
RECURSIVE WalkDir(_, _)
WalkDir(root, fnames) ==
    IF fnames = <<>> THEN <<>>
    ELSE (IF Ignored(root, Head(fnames)) THEN <<>>
          ELSE <<PathJoin(root, Head(fnames))>>)
         \o WalkDir(root, Tail(fnames))

\* main, lines 721-738: the list of files to execute
RECURSIVE Walk(_)
Walk(tree) ==
    IF tree = <<>> THEN <<>>
    ELSE WalkDir(Head(tree).root, Head(tree).fnames)
         \o (IF Arg("recursive") THEN Walk(Tail(tree)) ELSE <<>>)

\* main, lines 713-738 and 763-764: directory mode, building the list
DirStart ==
    /\ pc = "dir"
    /\ \E found \in BOOLEAN :
          IF ~found THEN
              SysExit(0) /\ UNCHANGED <<files, idx>>
          ELSE
              /\ files' = Walk(DirTree)
              /\ idx' = 1
              /\ pc' = "loop"
              /\ exit_code' = exit_code
    /\ UNCHANGED <<fixedVars, error_count, dontrun, return_code, cmds,
                   already_running, attempted, all_stage_fail,
                   run_file_response>>
    /\ UNCHANGED <<sampleVars, scriptVars>>

\* main, line 752: the type pre-filter of directory mode
TypeAccepted(magic) ==
    magic # <<>> /\ StartsWith(magic, PE32) /\ ~Contains(magic, DLL)

\* the budget check with > for >=
BudgetExceededOffByOne == error_count > error_tolerance

\* main, lines 741-744: the error budget check at the head of the loop
BudgetExceeded == error_count >= error_tolerance

\* main, lines 761-762: the loop ran out of files
BatchDone ==
    /\ pc = "loop"
    /\ idx > Len(files)
    /\ SysExit(0)
    /\ UNCHANGED <<fixedVars, error_count, dontrun, return_code, cmds,
                   already_running>>
    /\ UNCHANGED <<sampleVars, scriptVars, batchVars>>

\* main, lines 742-744: too many errors
BatchAbort ==
    /\ pc = "loop"
    /\ idx <= Len(files)
    /\ BudgetExceeded
    /\ SysExit(100)
    /\ UNCHANGED <<fixedVars, error_count, dontrun, return_code, cmds,
                   already_running>>
    /\ UNCHANGED <<sampleVars, scriptVars, batchVars>>

\* main, lines 746-758: one file passed over or handed to run_file
BatchNext ==
    /\ pc = "loop"
    /\ idx <= Len(files)
    /\ ~BudgetExceeded
    /\ \E report_found \in BOOLEAN, m \in MagicResults :
          IF Arg("skip") /\ report_found THEN
              /\ idx' = idx + 1
              /\ all_stage_fail' = FALSE
              /\ pc' = pc
              /\ UNCHANGED <<sampleVars, cmds, already_running, attempted>>
          ELSE IF ~TypeAccepted(m) THEN
              /\ idx' = idx + 1
              /\ all_stage_fail' = FALSE
              /\ pc' = pc
              /\ magic_result' = m
              /\ UNCHANGED <<malware_file, filename, zip_failed, cmds,
                             already_running, attempted>>
          ELSE
              /\ EnterRunFile(files[idx], m, dontrun)
              /\ attempted' = attempted + 1
              /\ UNCHANGED <<idx, all_stage_fail>>
    /\ UNCHANGED <<fixedVars, error_count, dontrun, return_code, exit_code,
                   files, run_file_response, scriptVars>>

----------------------------------------------------------------------------
(* run_file *)

rfFixed == <<fixedVars, dontrun, files, attempted>>

\* the control-plane binary of the selected hypervisor
HvBin == IF args.vbox THEN "vboxmanage" ELSE "vmrun"

Cmd(op, bin, arg) == [op |-> op, bin |-> bin, arg |-> arg]

\* a command that is sent again after its first attempt
ExecuteTwice(op, bin, arg, rc) ==
    /\ cmds' = Append(Append(cmds, Cmd(op, bin, arg)), Cmd(op, bin, arg))
    /\ return_code' = rc

\* execute(cmd) in run_file: the command goes to the host shell and its
\* status is kept in return_code
Execute(op, bin, arg, rc) ==
    /\ cmds' = Append(cmds, Cmd(op, bin, arg))
    /\ return_code' = rc

NoExecute == UNCHANGED <<cmds, return_code>>

\* run_file goes on to its next stage
Goto(p) ==
    /\ pc' = p
    /\ UNCHANGED <<exit_code, idx, run_file_response, all_stage_fail>>
    /\ UNCHANGED <<malware_file, magic_result, filename>>

\* run_file returns v to main and its frame is gone: the single-file run
\* ends (main falls off its end), the directory loop takes the next file
Return(v, stage_failure) ==
    /\ run_file_response' = v
    /\ malware_file' = <<>>
    /\ magic_result' = <<>>
    /\ filename' = <<>>
    /\ return_code' = 0
    /\ zip_failed' = FALSE
    /\ cmds' = <<>>
    /\ all_stage_fail' = (all_stage_fail /\ stage_failure)
    /\ IF args.mode = "file"
       THEN SysExit(0) /\ idx' = idx
       ELSE pc' = "loop" /\ idx' = idx + 1 /\ exit_code' = exit_code

\* sys.exit(code) inside run_file
Exit(code) ==
    /\ SysExit(code)
    /\ all_stage_fail' = FALSE
    /\ UNCHANGED <<idx, run_file_response>>
    /\ UNCHANGED <<malware_file, magic_result, filename>>

\* the counter bumped by two
CountErrorTwice == error_count + 2

\* the counter decremented instead of incremented
CountErrorDown == error_count - 1

\* error_count += 1
CountError == error_count + 1

\* run_file, line 205
WantRevert == ~Arg("norevert") /\ ~Arg("nosnapshot")

\* run_file, lines 211-213 and 228-230: a failed revert or restore
RevertFailed(rc) == rc # 0

\* the power-off check without the "not running" case
PowerOffFailedAnyCode(rc) == rc # 0

\* run_file, lines 219-224: a failed power-off before restore
PowerOffFailed(rc) == rc # 1 /\ rc # 0

\* run_file, lines 205-224: revert (VMware), power-off before restore (VBox)
Revert ==
    /\ pc = "revert"
    /\ IF ~WantRevert THEN
           Goto("poweron") /\ NoExecute
       ELSE IF Hypervisor = "vmw" THEN
           \E rc \in RetCodes :
               /\ Execute("revertToSnapshot", "vmrun", <<>>, rc)
               /\ IF RevertFailed(rc) THEN Exit(rc) ELSE Goto("poweron")
       ELSE
           \E rc \in RetCodes :
               /\ Execute("poweroff", "vboxmanage", <<>>, rc)
               /\ IF PowerOffFailed(rc) THEN Exit(rc) ELSE Goto("restore")
    /\ UNCHANGED <<rfFixed, scriptVars, error_count, zip_failed, already_running>>

\* run_file, lines 226-230: snapshot restore (VBox)
Restore ==
    /\ pc = "restore"
    /\ \E rc \in RetCodes :
          /\ Execute("restore", "vboxmanage", <<>>, rc)
          /\ IF RevertFailed(rc) THEN Exit(rc) ELSE Goto("poweron")
    /\ UNCHANGED <<rfFixed, scriptVars, error_count, zip_failed, already_running>>

\* run_file, lines 240-243: VBoxManage answers 1 when the VM already runs;
\* nothing is known of vmrun
PowerOnCodes(running) ==
    IF running /\ Hypervisor = "vbox" THEN {1} ELSE RetCodes

\* the power-on check without the "already running" case
PowerOnFailedAnyCode(rc) == rc # 0

\* run_file, lines 239-247: is this power-on result a failure of the sample
PowerOnFailed(rc) ==
    rc # 0 /\ ~(rc = 1 /\ Hypervisor = "vbox")

\* run_file, lines 232-247: power on the VM
PowerOn ==
    /\ pc = "poweron"
    /\ \E running \in BOOLEAN :
        \E rc \in PowerOnCodes(running) :
          /\ already_running' = running
          /\ IF PowerOnFailed(rc)
             THEN /\ error_count' = CountError
                  /\ Return(rc, FALSE)
             ELSE /\ error_count' = error_count
                  /\ Execute("start", HvBin, <<>>, rc)
                  /\ Goto("copy")
                  /\ UNCHANGED zip_failed
    /\ UNCHANGED <<rfFixed, scriptVars>>

\* run_file, lines 249-263: copy the sample into the guest
CopySample ==
    /\ pc = "copy"
    /\ already_running' = FALSE
    /\ \E rc \in RetCodes :
          IF rc # 0
          THEN /\ error_count' = CountError
               /\ Return(rc, TRUE)
          ELSE /\ error_count' = error_count
               /\ Execute("copySample", HvBin, filename, rc)
               /\ Goto("update")
               /\ UNCHANGED zip_failed
    /\ UNCHANGED <<rfFixed, scriptVars>>

\* run_file, lines 289-291, 309-311, 327-329: a failed copy of the --update
\* block prints and goes on
CopyDiag(rc) == IF rc # 0 THEN "copy failed" ELSE "none"

\* run_file, lines 268-296: --update, Noriben.py (mandatory)
UpdateScript ==
    /\ pc = "update"
    /\ IF ~Arg("update") THEN
           /\ Goto("xx")
           /\ NoExecute
           /\ UNCHANGED <<error_count, zip_failed, update_diag>>
       ELSE
           \E found \in BOOLEAN :
               IF found THEN
                   \E rc \in RetCodes :
                       /\ Execute("copyNoribenPy", HvBin, <<>>, rc)
                       /\ update_diag' = CopyDiag(rc)
                       /\ Goto("update_config")
                       /\ UNCHANGED <<error_count, zip_failed>>
               ELSE
                   /\ error_count' = CountError
                   /\ Return(return_code, FALSE)
                   /\ UNCHANGED update_diag
    /\ UNCHANGED <<rfFixed, interpVars, already_running>>

\* an optional copy whose failure is counted as an error of the run
OptionalCopyCounts(op, next, missing) ==
    /\ \E found \in BOOLEAN :
          IF found THEN
              \E rc \in RetCodes :
                  /\ Execute(op, HvBin, <<>>, rc)
                  /\ update_diag' = CopyDiag(rc)
                  /\ error_count' = (IF rc # 0 THEN CountError ELSE error_count)
          ELSE /\ NoExecute
               /\ update_diag' = missing
               /\ error_count' = error_count
    /\ Goto(next)
    /\ UNCHANGED <<rfFixed, interpVars, zip_failed, already_running>>

\* an optional --update copy: issued when the host file exists, its result
\* only printed; missing is what is printed when the host file is absent
OptionalCopy(op, next, missing) ==
    /\ \E found \in BOOLEAN :
          IF found THEN
              \E rc \in RetCodes :
                  /\ Execute(op, HvBin, <<>>, rc)
                  /\ update_diag' = CopyDiag(rc)
          ELSE /\ NoExecute
               /\ update_diag' = missing
    /\ Goto(next)
    /\ UNCHANGED <<rfFixed, interpVars, error_count, zip_failed, already_running>>

\* run_file, lines 298-314: --update, Noriben.config; its absence is
\* reported
UpdateConfig ==
    /\ pc = "update_config"
    /\ OptionalCopy("copyNoribenConfig", "update_vt", "not found")

\* run_file, lines 316-333: --update, virustotal.api; its absence is silent
UpdateVt ==
    /\ pc = "update_vt"
    /\ OptionalCopy("copyVirustotalApi", "xx", "none")

\* run_file, line 339: the status --dontrunanything ends the process with
StageOnlyStatus == return_code

\* run_file, lines 337-341: --dontrunanything
DontRunAnything ==
    /\ pc = "xx"
    /\ IF Arg("dontrunanything") THEN Exit(StageOnlyStatus) ELSE Goto("raw")
    /\ update_diag' = "none"
    /\ NoExecute
    /\ UNCHANGED <<rfFixed, interpVars, error_count, zip_failed, already_running>>

\* run_file, lines 345-356: --raw, delete the Procmon filter
RawFilter ==
    /\ pc = "raw"
    /\ IF ~Arg("raw") THEN
           NoExecute /\ UNCHANGED error_count
       ELSE
           \E rc \in RetCodes :
               /\ Execute("deleteFileInGuest", "vmrun", <<>>, rc)
               /\ error_count' =
                     IF rc # 0 THEN CountError ELSE error_count
    /\ Goto("run")
    /\ UNCHANGED <<rfFixed, scriptVars, zip_failed,
                   already_running>>

\* run_file, lines 359-389: run Noriben in the guest
RunNoriben ==
    /\ pc = "run"
    /\ \E rc \in RetCodes :
          IF rc # 0
          THEN /\ error_count' = CountError
               /\ Return(rc, FALSE)
          ELSE /\ error_count' = error_count
               /\ Execute("runNoriben", HvBin,
                          IF ~dontrun THEN filename ELSE <<>>, rc)
               /\ Goto("post")
               /\ UNCHANGED zip_failed
    /\ UNCHANGED <<rfFixed, scriptVars, already_running>>

\* the zip command whose status is dropped: the copy that follows sees the
\* status of the collector run
ZipReportForgetsFailure ==
    /\ pc = "zip"
    /\ \E rc \in RetCodes :
          /\ cmds' = Append(cmds, Cmd("zipReport", HvBin, <<>>))
          /\ return_code' = rc
          /\ zip_failed' = FALSE
    /\ Goto("copyback")
    /\ UNCHANGED <<rfFixed, scriptVars, error_count, already_running>>

\* run_file, lines 395-401: zip the guest log directory
ZipReport ==
    /\ pc = "zip"
    /\ \E rc \in RetCodes :
          /\ Execute("zipReport", HvBin, <<>>, rc)
          /\ zip_failed' = (rc # 0)
    /\ Goto("copyback")
    /\ UNCHANGED <<rfFixed, scriptVars, error_count, already_running>>

ReportSuffix ==
    <<"_", "N", "o", "r", "i", "b", "e", "n", "R", "e", "p", "o", "r", "t",
      ".", "z", "i", "p">>

\* main, line 746: the path --skip looks for
SkipProbePath(file) == file \o ReportSuffix

\* values of config['report_path_structure'], as the text between and after
\* its two {} fields: '{}/{}_NoribenReport.zip' and '{}/{}.zip'
ReportPathStructures ==
    { [mid |-> <<"/">>, post |-> ReportSuffix],
      [mid |-> <<"/">>, post |-> <<".", "z", "i", "p">>] }

\* run_file, lines 190-192
HostMalwarePath(file) ==
    IF DirName(file) = <<>> THEN <<".">> ELSE DirName(file)

\* run_file, lines 182 and 403: host_report_path
HostReportPath(structure, file) ==
    LET host_malware_name_base == SplitStr(PathTail(file), <<".">>)[1]
    IN  HostMalwarePath(file) \o structure.mid \o host_malware_name_base
        \o structure.post

\* run_file, lines 403-410: copy the archive to the host
CopyBack ==
    /\ pc = "copyback"
    /\ IF ~Arg("nolog") /\ ~zip_failed THEN
           \E rc \in RetCodes, structure \in ReportPathStructures :
               Execute("copyFileFromGuestToHost", "vmrun",
                       HostReportPath(structure, malware_file), rc)
       ELSE NoExecute
    /\ Goto("screenshot")
    /\ UNCHANGED <<rfFixed, scriptVars, error_count, zip_failed, already_running>>

\* run_file, lines 412-421: --screenshot
Screenshot ==
    /\ pc = "screenshot"
    /\ IF Arg("screenshot") THEN
           \E rc \in RetCodes : Execute("captureScreen", "vmrun", <<>>, rc)
       ELSE NoExecute
    /\ Goto("shutdown")
    /\ UNCHANGED <<rfFixed, scriptVars, error_count, zip_failed, already_running>>

\* run_file, lines 423-429: --shutdown
Shutdown ==
    /\ pc = "shutdown"
    /\ IF Arg("shutdown") THEN
           \E rc \in RetCodes :
               IF rc # 0
               THEN /\ error_count' = CountError
                    /\ Return(rc, FALSE)
               ELSE /\ error_count' = error_count
                    /\ Execute("stop", "vmrun", <<>>, rc)
                    /\ Goto("suspend")
                    /\ UNCHANGED zip_failed
       ELSE /\ Goto("suspend")
            /\ NoExecute
            /\ UNCHANGED <<error_count, zip_failed>>
    /\ UNCHANGED <<rfFixed, scriptVars, already_running>>

\* run_file, lines 431-443: --suspend, then the normal return
Suspend ==
    /\ pc = "suspend"
    /\ IF Arg("suspend") THEN
           \E rc \in RetCodes :
               /\ error_count' =
                     IF rc # 0 THEN CountError ELSE error_count
               /\ Return(rc, FALSE)
       ELSE Return(0, FALSE) /\ UNCHANGED error_count
    /\ UNCHANGED <<rfFixed, scriptVars, already_running>>

----------------------------------------------------------------------------
(* run_postexec_script and copy_file_to_zip *)

CollectKw == <<"c", "o", "l", "l", "e", "c", "t", " ">>
SleepKw == <<"s", "l", "e", "e", "p", " ">>
ExecKw == <<"e", "x", "e", "c", " ">>
ExecwaitKw == <<"e", "x", "e", "c", "w", "a", "i", "t", " ">>

\* lines a post-exec script may hold
ScriptLines ==
    { CollectKw \o <<"a", "\n">>,
      CollectKw \o <<"\n">>,
      <<"C">> \o Tail(CollectKw) \o <<"x", "\n">>,
      <<"c", "o", "l", "l", "e", "c", "t", "\n">>,
      <<"#", " ", "c", "\n">>,
      <<"\n">>,
      SleepKw \o <<"3", "\n">>,
      SleepKw \o <<"x", "\n">>,
      SleepKw \o <<"\n">>,
      SleepKw \o <<"-", "1", "\n">>,
      ExecKw \o <<"p", " ", "a", " ", "b", "\n">>,
      ExecwaitKw \o <<"p", "\n">>,
      ExecKw \o <<"\n">>,
      ExecwaitKw \o <<"\n">>,
      ExecKw \o <<"'", "p", "\n">> }

Digits == <<"0", "1", "2", "3", "4", "5", "6", "7", "8", "9">>

IsDigit(c) == \E d \in 1..Len(Digits) : Digits[d] = c

DigitVal(c) == (CHOOSE d \in 1..Len(Digits) : Digits[d] = c) - 1

RECURSIVE DigitsVal(_)
DigitsVal(s) ==
    IF s = <<>> THEN 0
    ELSE DigitsVal(SubSeq(s, 1, Len(s) - 1)) * 10 + DigitVal(s[Len(s)])

\* int(s) for a string of blanks, a sign and decimal digits; ok is FALSE
\* where int() raises ValueError
ParseInt(s) ==
    LET t == Strip(s)
        signed == t # <<>> /\ t[1] \in {"+", "-"}
        body == IF signed THEN Tail(t) ELSE t
    IN  IF body # <<>> /\ \A i \in 1..Len(body) : IsDigit(body[i])
        THEN [ok |-> TRUE,
              val |-> IF signed /\ t[1] = "-" THEN 0 - DigitsVal(body)
                      ELSE DigitsVal(body)]
        ELSE [ok |-> FALSE, val |-> 0]

ShlexQuotes == {"\"", "'"}

\* shlex.shlex.read_token with posix=False, whitespace_split=True and no
\* commenters: state " " between tokens, "a" inside a word, a quote
\* character inside a quoted token; ok is FALSE where it raises ValueError
\* ("No closing quotation")
RECURSIVE ShlexRead(_, _, _, _)
ShlexRead(s, state, token, items) ==
    IF s = <<>> THEN
        IF state \in ShlexQuotes THEN [ok |-> FALSE, items |-> items]
        ELSE [ok |-> TRUE,
              items |-> IF token = <<>> THEN items ELSE Append(items, token)]
    ELSE
        LET c == Head(s)
            r == Tail(s)
        IN  IF state = " " THEN
                IF IsSpace(c) THEN ShlexRead(r, " ", <<>>, items)
                ELSE IF c \in ShlexQuotes THEN ShlexRead(r, c, <<c>>, items)
                ELSE ShlexRead(r, "a", <<c>>, items)
            ELSE IF state = "a" THEN
                IF IsSpace(c)
                THEN ShlexRead(r, " ", <<>>, Append(items, token))
                ELSE ShlexRead(r, "a", Append(token, c), items)
            ELSE IF c = state
                THEN ShlexRead(r, " ", <<>>, Append(items, Append(token, c)))
                ELSE ShlexRead(r, state, Append(token, c), items)

\* shlex.split(s, posix=False)
ShlexSplit(s) == ShlexRead(s, " ", <<>>, <<>>)

\* sep.join(items)
RECURSIVE JoinStr(_, _)
JoinStr(items, sep) ==
    IF items = <<>> THEN <<>>
    ELSE IF Len(items) = 1 THEN items[1]
    ELSE items[1] \o sep \o JoinStr(Tail(items), sep)

\* the post-execution script is interpreted whenever --post was given
PostStartIgnoresExists ==
    /\ pc = "post"
    /\ \E found \in BOOLEAN :
          /\ post_exists' = (Arg("post") /\ found)
          /\ Goto(IF Arg("post") THEN "script" ELSE "zip")
    /\ NoExecute
    /\ UNCHANGED <<rfFixed, line_no, line, source_path, diag, line_cmds,
                   sleeps, post_return_code, collect_status, error_count,
                   zip_failed, already_running, update_diag>>

\* run_file, lines 392-393, and run_postexec_script, lines 483-485: the
\* script is interpreted when --post was given and the file it names exists
PostStart ==
    /\ pc = "post"
    /\ \E found \in BOOLEAN :
          /\ post_exists' = (Arg("post") /\ found)
          /\ Goto(IF Arg("post") /\ found THEN "script" ELSE "zip")
    /\ NoExecute
    /\ UNCHANGED <<rfFixed, line_no, line, source_path, diag, line_cmds,
                   sleeps, post_return_code, collect_status, error_count,
                   zip_failed, already_running, update_diag>>

\* run_postexec_script, lines 496-499: the path a collect line names; the
\* previous source_path is kept when the split finds no second part
CollectPath(l, previous) ==
    LET parts == SplitStr(l, CollectKw)
    IN  IF Len(parts) >= 2 THEN Strip(parts[2]) ELSE previous

\* run_postexec_script, lines 496-499: the IndexError handler prints
CollectDiag(l) ==
    IF Len(SplitStr(l, CollectKw)) >= 2 THEN "none" ELSE "bad collect"

\* run_postexec_script, lines 489-495: the collect branch is taken
IsCollect(l) ==
    /\ Len(l) > 1
    /\ ~StartsWith(l, <<"#">>)
    /\ StartsWith(Lower(l), CollectKw)

\* run_postexec_script, line 502: the sleep branch is taken
IsSleep(l) == ~IsCollect(l) /\ StartsWith(l, SleepKw)

\* run_postexec_script, line 511: the exec / execwait branch is taken
IsExec(l) ==
    /\ ~IsCollect(l)
    /\ ~IsSleep(l)
    /\ StartsWith(l, ExecKw) \/ StartsWith(l, ExecwaitKw)

\* run_postexec_script, line 504: int(line.split('sleep ')[1].strip())
SleepSeconds(l) == ParseInt(Strip(SplitStr(l, SleepKw)[2]))

\* run_postexec_script, lines 509 and 513: the line raises an exception no
\* handler catches (time.sleep of a negative length, shlex.split of an
\* unclosed quote, both ValueError)
LineRaises(l) ==
    \/ IsSleep(l) /\ SleepSeconds(l).ok /\ SleepSeconds(l).val < 0
    \/ IsExec(l) /\ ~ShlexSplit(l).ok

\* run_postexec_script, lines 513-519: items[1] exists
ExecHasPath(l) == ShlexSplit(l).ok /\ Len(ShlexSplit(l).items) >= 2

\* run_postexec_script, lines 498-499, 505-507, 517-519: the diagnostic of
\* the except clauses
LineDiag(l) ==
    IF IsCollect(l) THEN CollectDiag(l)
    ELSE IF IsSleep(l) /\ ~SleepSeconds(l).ok THEN "bad sleep"
    ELSE IF IsExec(l) /\ ShlexSplit(l).ok /\ ~ExecHasPath(l) THEN "bad exec"
    ELSE "none"

\* run_postexec_script, line 509: time.sleep(sleep_seconds) pauses
LineSleeps(l) ==
    IF IsSleep(l) /\ SleepSeconds(l).ok /\ SleepSeconds(l).val >= 0
    THEN <<SleepSeconds(l).val>>
    ELSE <<>>

NoWait == <<"-", "n", "o", "W", "a", "i", "t">>

\* the command of an exec / execwait line, -noWait whatever the keyword
ExecCmdAlwaysNoWait(l) ==
    LET items == ShlexSplit(l).items
    IN  Cmd("runScriptCommand", "cmd_base",
            <<NoWait, items[2], JoinStr(SubSeq(items, 3, Len(items)), <<" ">>)>>)

\* run_postexec_script, lines 513-526: the command of an exec / execwait
\* line, as (cmd_nowait, cmd_path, cmd_args) after cmd_base
ExecCmd(l) ==
    LET items == ShlexSplit(l).items
        cmd_type == items[1]
        cmd_path == items[2]
        cmd_args == JoinStr(SubSeq(items, 3, Len(items)), <<" ">>)
        cmd_nowait == IF cmd_type = <<"e", "x", "e", "c">> THEN NoWait
                      ELSE <<>>
    IN  Cmd("runScriptCommand", "cmd_base",
            <<cmd_nowait, cmd_path, cmd_args>>)

\* run_postexec_script, lines 489-500 and 531-532: what a line makes the
\* interpreter do next
LineTarget(l) ==
    IF Len(l) <= 1 THEN "script"
    ELSE IF StartsWith(l, <<"#">>) THEN "script"
    ELSE IF StartsWith(Lower(l), CollectKw) THEN "cz_exists"
    ELSE "script"

\* what the interpreter makes of each line of ScriptLines, as far as it
\* does not depend on the state
Interpret ==
    [l \in ScriptLines |->
        [collect |-> IsCollect(l),
         raises |-> LineRaises(l),
         diag |-> LineDiag(l),
         sleeps |-> LineSleeps(l),
         exec |-> IsExec(l) /\ ExecHasPath(l),
         cmd |-> IF IsExec(l) /\ ExecHasPath(l) THEN ExecCmd(l) ELSE <<>>,
         path |-> IF IsCollect(l) /\ CollectDiag(l) = "none"
                  THEN <<CollectPath(l, <<>>)>> ELSE <<>>,
         target |-> LineTarget(l)]]

\* run_postexec_script, lines 486-532: read the next line and interpret it,
\* up to the call of copy_file_to_zip for a collect line
ScriptLine ==
    /\ pc = "script"
    /\ line_no < MaxLines
    /\ \E l \in ScriptLines :
          /\ line' = l
          /\ line_no' = line_no + 1
          /\ diag' = Interpret[l].diag
          /\ sleeps' = Interpret[l].sleeps
          /\ collect_status' = 0
          /\ source_path' = IF Interpret[l].path # <<>>
                            THEN Interpret[l].path[1] ELSE source_path
          /\ IF Interpret[l].raises THEN
                 \* the traceback ends the process with status 1
                 /\ Exit(1)
                 /\ line_cmds' = <<>>
                 /\ post_return_code' = 0
             ELSE IF Interpret[l].exec THEN
                 \E rc \in RetCodes :
                     /\ line_cmds' = <<[Interpret[l].cmd EXCEPT !.bin = HvBin]>>
                     /\ post_return_code' = rc
                     /\ Goto("script")
             ELSE
                 /\ line_cmds' = <<>>
                 /\ post_return_code' = 0
                 /\ Goto(Interpret[l].target)
    /\ NoExecute
    /\ UNCHANGED <<rfFixed, error_count, zip_failed,
                   already_running, post_exists, update_diag>>

\* run_postexec_script, line 486: the script has no more lines; the
\* interpreter returns and its frame is gone
ScriptEnd ==
    /\ pc = "script"
    /\ Goto("zip")
    /\ line_no' = 0
    /\ line' = <<>>
    /\ source_path' = <<>>
    /\ diag' = "none"
    /\ line_cmds' = <<>>
    /\ sleeps' = <<>>
    /\ post_return_code' = 0
    /\ collect_status' = 0
    /\ post_exists' = FALSE
    /\ NoExecute
    /\ UNCHANGED <<rfFixed, error_count, zip_failed,
                   already_running, update_diag>>

\* one command of copy_file_to_zip whose failure is counted but does not
\* end the collect
CollectStepGoesOn(op, bin, next) ==
    /\ \E rc \in RetCodes :
          /\ line_cmds' = Append(line_cmds, Cmd(op, bin, source_path))
          /\ collect_status' = rc
          /\ error_count' = (IF rc # 0 THEN CountError ELSE error_count)
          /\ Goto(next)
    /\ NoExecute
    /\ UNCHANGED <<rfFixed, line_no, line, source_path, diag, sleeps,
                   post_return_code, zip_failed, already_running,
                   post_exists, update_diag>>

\* one command of copy_file_to_zip: a failure is counted and ends the collect
CollectStep(op, bin, next) ==
    /\ \E rc \in RetCodes :
          /\ line_cmds' = Append(line_cmds, Cmd(op, bin, source_path))
          /\ collect_status' = rc
          /\ IF rc # 0
             THEN error_count' = CountError /\ Goto("script")
             ELSE error_count' = error_count /\ Goto(next)
    /\ NoExecute
    /\ UNCHANGED <<rfFixed, line_no, line, source_path, diag, sleeps,
                   post_return_code, zip_failed, already_running,
                   post_exists, update_diag>>

\* copy_file_to_zip, lines 549-555
CollectExists ==
    /\ pc = "cz_exists"
    /\ CollectStep("fileExistsInGuest", "vmrun", "cz_xcopy")

\* copy_file_to_zip, lines 557-563
CollectXcopy ==
    /\ pc = "cz_xcopy"
    /\ CollectStep("xcopy", HvBin, "cz_zip")

\* copy_file_to_zip, lines 565-573
CollectZip ==
    /\ pc = "cz_zip"
    /\ CollectStep("zipAdd", HvBin, "script")

----------------------------------------------------------------------------

Next ==
    \/ Startup
    \/ SingleFile
    \/ DirStart
    \/ BatchDone
    \/ BatchAbort
    \/ BatchNext
    \/ Revert
    \/ Restore
    \/ PowerOn
    \/ CopySample
    \/ UpdateScript
    \/ UpdateConfig
    \/ UpdateVt
    \/ DontRunAnything
    \/ RawFilter
    \/ RunNoriben
    \/ PostStart
    \/ ScriptLine
    \/ ScriptEnd
    \/ CollectExists
    \/ CollectXcopy
    \/ CollectZip
    \/ ZipReport
    \/ CopyBack
    \/ Screenshot
    \/ Shutdown
    \/ Suspend

Spec == Init /\ [][Next]_vars

----------------------------------------------------------------------------
(* Properties *)

Ops(log) == { log[i].op : i \in 1..Len(log) }

LastOp(log) == IF log = <<>> THEN "none" ELSE log[Len(log)].op

\* C1: in a directory run run_file is never entered with the error count at
\* or above error_tolerance; at that point the loop ends the process with
\* status 100 and enters no further sample.
C1_BudgetGate ==
    [][ /\ (pc = "loop" /\ idx <= Len(files) /\ error_count >= error_tolerance)
            => (pc' = "exit" /\ exit_code' = 100 /\ attempted' = attempted)
        /\ (attempted' # attempted) => (error_count < error_tolerance)
      ]_vars

C1_Witness ==
    /\ pc = "exit"
    /\ exit_code = 100
    /\ attempted >= 1
    /\ idx <= Len(files)

\* C2: a directory run over more than error_tolerance files, each accepted
\* and each failing at the copy of the sample into the guest, attempts
\* exactly error_tolerance samples, counts one error per failure and ends
\* with status 100.
C2_StageFailuresAbort ==
    (/\ pc = "exit"
     /\ args.mode = "dir"
     /\ idx >= 1
     /\ all_stage_fail
     /\ Len(files) > error_tolerance)
    => (/\ attempted = error_tolerance
        /\ error_count = attempted
        /\ exit_code = 100
        /\ idx = error_tolerance + 1)

C2_Witness ==
    /\ pc = "exit"
    /\ exit_code = 100
    /\ all_stage_fail
    /\ error_tolerance = 2
    /\ attempted = 2
    /\ Len(files) = 3

\* C3: error_count never decreases: no step of main, run_file,
\* run_postexec_script or copy_file_to_zip lowers or resets it.
C3_ErrorCountMonotone == [][error_count' >= error_count]_vars

C3_Witness ==
    /\ pc = "copy"
    /\ attempted >= 2
    /\ error_count >= 1

\* C4: a hard failure at revert, power-on or sample copy ends the sample,
\* increments error_count and returns to main (the process does not end with
\* the failure status).
C4_EarlyHardFailureCounted ==
    [][ (pc \in {"revert", "restore", "poweron", "copy"}
         /\ pc' \in {"exit", "loop"})
        => (error_count' = error_count + 1 /\ exit_code' \in {NoExit, 0})
      ]_vars

\* C5: a directory run that stops before its last file (and was not asked to
\* stage only) stops with status 100: no failure inside a sample halts the
\* batch.
C5_FailureNeverHaltsBatch ==
    (/\ pc = "exit"
     /\ args.mode = "dir"
     /\ idx >= 1
     /\ idx <= Len(files)
     /\ ~Arg("dontrunanything"))
    => exit_code = 100

\* C6: a single-file run with --dontrunanything that copied the sample ends
\* with status 0, whatever the --update copies returned, and issues no
\* command of a later stage.
C6_StageOnlyExitsZero ==
    (/\ pc = "exit"
     /\ args.mode = "file"
     /\ Arg("dontrunanything")
     /\ "copySample" \in Ops(cmds))
    => (/\ exit_code = 0
        /\ Ops(cmds) \cap {"deleteFileInGuest", "runNoriben", "zipReport",
                           "copyFileFromGuestToHost", "captureScreen",
                           "stop", "suspend"} = {}
        /\ line_cmds = <<>>)

C8_PowerOffBeforeRestore ==
    /\ [](\A i \in 1..Len(cmds) :
            cmds[i].op = "restore" => (i > 1 /\ cmds[i - 1].op = "poweroff"))
    /\ [][ /\ (pc = "revert" /\ WantRevert /\ args.vbox)
               => cmds' = Append(cmds, Cmd("poweroff", "vboxmanage", <<>>))
           /\ (pc = "revert" /\ WantRevert /\ args.vbox /\ return_code' = 1)
               => (pc' = "restore" /\ error_count' = error_count)
           /\ (pc = "restore")
               => (LastOp(cmds) = "poweroff"
                   /\ cmds' = Append(cmds, Cmd("restore", "vboxmanage", <<>>)))
         ]_vars

C8_Witness ==
    /\ pc = "restore"
    /\ args.vbox
    /\ return_code = 1
    /\ error_count = 0
    /\ LastOp(cmds) = "poweroff"

\* the file name of a path up to its first dot, stated without split()
C9_Base(file) ==
    LET n == CHOOSE k \in 0..Len(file) :
                /\ \A j \in (k + 1)..Len(file) : file[j] # "/"
                /\ (k = 0 \/ file[k] = "/")
        name == [i \in 1..(Len(file) - n) |-> file[n + i]]
        b == CHOOSE k \in 0..Len(name) :
                /\ \A j \in 1..k : name[j] # "."
                /\ (k = Len(name) \/ name[k + 1] = ".")
    IN  [i \in 1..b |-> name[i]]

\* C9: while a sample is processed and execution is not suppressed, the
\* guest staging path is guest_malware_path, the base name and ".bat" for a
\* DOS batch classification, ".exe" for any other; nothing else enters it.
C9_StagingPathFunction ==
    (malware_file # <<>> /\ ~dontrun)
    => filename =
          GuestMalwarePath \o C9_Base(malware_file) \o
          (IF Contains(magic_result, DOSbatch)
           THEN <<".", "b", "a", "t">> ELSE <<".", "e", "x", "e">>)

C9_Witness ==
    /\ pc = "copy"
    /\ ~dontrun
    /\ malware_file = <<"d", "/", "s", ".", "b", ".", "c">>
    /\ magic_result = DOSbatch
    /\ filename = <<"m", "_", "s", ".", "b", "a", "t">>

\* a collect line that names no path: nothing but blanks after the keyword,
\* or a keyword that is not the lower-case one the path is split at
C10_NoPath(l) ==
    /\ StartsWith(Lower(l), CollectKw)
    /\ \/ Strip(SubSeq(l, Len(CollectKw) + 1, Len(l))) = <<>>
       \/ ~StartsWith(l, CollectKw)

\* C10: a collect line that names no path is diagnosed and skipped:
\* copy_file_to_zip is not called for it and no command is issued.
C10_MalformedCollectSkipped ==
    (pc \in {"script", "cz_exists", "cz_xcopy", "cz_zip"} /\ C10_NoPath(line))
    => (diag = "bad collect" /\ pc = "script" /\ line_cmds = <<>>)

\* the value a sleep line names: the text after the keyword read as a
\* decimal integer
C11_Arg(l) == ParseInt(SubSeq(l, Len(SleepKw) + 1, Len(l)))

\* C11: a line "sleep X" with X no integer, or missing, is diagnosed and
\* does not sleep; a line "sleep N" with N an integer pauses for N seconds;
\* either way the next line is interpreted, no guest command is issued and
\* the error count is unchanged.
C11_SleepLine ==
    [][ (pc = "script" /\ line_no' = line_no + 1
         /\ StartsWith(line', SleepKw))
        => /\ pc' = "script"
           /\ line_cmds' = <<>>
           /\ error_count' = error_count
           /\ IF C11_Arg(line').ok
              THEN sleeps' = <<C11_Arg(line').val>> /\ diag' = "none"
              ELSE sleeps' = <<>> /\ diag' = "bad sleep"
      ]_vars

\* C12: no line of a post-exec script ends its interpretation: from any
\* point of the interpreter the next step stays in the interpreter or, at
\* the end of the script, goes on to the archive stage, and lines are read
\* in file order.
C12_SkipAndContinue ==
    [][ (pc \in {"script", "cz_exists", "cz_xcopy", "cz_zip"})
        => /\ pc' \in {"script", "cz_exists", "cz_xcopy", "cz_zip", "zip"}
           /\ line_no' \in {line_no, line_no + 1, 0}
           /\ (line_no' = 0) => (pc' = "zip")
      ]_vars

\* t occurs in s, compared without regard to case
C13_Within(t, s) ==
    \E i \in 1..(Len(s) + 1) :
        \A j \in 1..Len(t) :
            i + j - 1 <= Len(s) /\ LowerChar(s[i + j - 1]) = LowerChar(t[j])

\* the comma-separated terms of --ignore
C13_Terms ==
    LET g == args.ignore
    IN  { SubSeq(g, i, j) : <<i, j>> \in
            { q \in (1..(Len(g) + 1)) \X (0..Len(g)) :
                /\ q[1] <= q[2] + 1
                /\ \A k \in q[1]..q[2] : g[k] # ","
                /\ (q[1] = 1 \/ g[q[1] - 1] = ",")
                /\ (q[2] = Len(g) \/ g[q[2] + 1] = ",") } }

\* the directories a run walks: the top one, the others with --recursive
C13_Walked ==
    { DirTree[d] : d \in { d \in 1..Len(DirTree) : d = 1 \/ Arg("recursive") } }

\* C13: in a directory run a file of a walked directory is left out of the
\* list of files to process exactly when some --ignore term occurs, case
\* ignored, in its directory path or in its file name; only listed files
\* are processed.
C13_IgnoreFilter ==
    (args.mode = "dir" /\ idx >= 1)
    => /\ \A D \in C13_Walked :
            \A k \in 1..Len(D.fnames) :
               (\E n \in 1..Len(files) :
                    files[n] = PathJoin(D.root, D.fnames[k]))
               <=> ~(/\ args.ignore # <<>>
                     /\ \E t \in C13_Terms :
                           \/ C13_Within(t, D.root)
                           \/ C13_Within(t, D.fnames[k]))
       /\ (malware_file # <<>>) => (idx <= Len(files) /\ files[idx] = malware_file)

C13_Witness ==
    /\ pc = "exit"
    /\ exit_code = 0
    /\ Arg("recursive")
    /\ args.ignore = <<"t", "m", "p", ",", "b", "k">>
    /\ files = << <<"d", "/", "a", ".", "e", "x", "e">> >>
    /\ attempted = 1

\* a classification of an executable or of a script
C14_Proceeds(m) ==
    \/ StartsWith(m, PE32) /\ ~Contains(m, DLL)
    \/ Contains(m, DOSbatch)

\* C14: in a directory run (without --skip) a file goes on to run_file
\* exactly when it is classified as an executable or as a script; a file of
\* any other classification is passed over.
C14_TypeFilter ==
    [][ (pc = "loop" /\ pc' # "exit" /\ ~Arg("skip"))
        => /\ (pc' = "revert") <=> C14_Proceeds(magic_result')
           /\ (pc' # "revert") => (pc' = "loop" /\ idx' = idx + 1
                                   /\ attempted' = attempted)
      ]_vars

\* C15: from the raw-filter stage on every stage hands over to the next one
\* whatever its commands returned; a failed run of the collector skips the
\* post-exec script only.
C15_LaterStagesAttempted ==
    [][ /\ (pc = "raw") => (pc' = "run")
        /\ (pc = "run") => (pc' \in {"post", "zip"})
        /\ (pc = "post") => (pc' \in {"script", "zip"})
        /\ (pc = "zip") => (pc' = "copyback")
        /\ (pc = "copyback") => (pc' = "screenshot")
        /\ (pc = "screenshot") => (pc' = "shutdown")
        /\ (pc = "shutdown") => (pc' = "suspend")
      ]_vars

\* C16: every failed command from the raw-filter stage on raises the error
\* count by one: filter delete, collector run, script command, zip,
\* copy-back, screenshot, power-off, suspend.
C16_EveryFailureCounted ==
    [][ /\ (pc \in {"raw", "zip", "copyback", "screenshot"}
            /\ cmds' # cmds /\ return_code' # 0)
           => (error_count' = error_count + 1)
        /\ (pc = "run" /\ pc' # "post") => (error_count' = error_count + 1)
        /\ (pc = "shutdown" /\ pc' # "suspend")
           => (error_count' = error_count + 1)
        /\ (pc = "suspend" /\ run_file_response' # 0)
           => (error_count' = error_count + 1)
        /\ (pc = "script" /\ line_cmds' # <<>> /\ post_return_code' # 0)
           => (error_count' = error_count + 1)
      ]_vars

\* C17: in a directory run the host path the report archive of a sample is
\* copied to is the path --skip looks for on a later run over that sample.
C17_ReportPathRoundTrip ==
    (args.mode = "dir" /\ malware_file # <<>>)
    => \A i \in 1..Len(cmds) :
          (cmds[i].op = "copyFileFromGuestToHost")
          => (cmds[i].arg = SkipProbePath(malware_file))

\* a classification the single-file check lets execute
C18_ExecOrScript(m) ==
    \/ StartsWith(m, PE32) /\ ~Contains(m, DLL)
    \/ Contains(m, DOSbatch)

\* C18: in single-file mode the collector is started only after the sample
\* was copied to its staging path; for a non-empty classification that is
\* neither executable nor script the collector command carries no sample
\* path; for an executable or script classification (and no --dontrun) it
\* carries the staging path.
C18_ForcedStageOnly ==
    (args.mode = "file" /\ malware_file # <<>>)
    => \A i \in 1..Len(cmds) :
          (cmds[i].op = "runNoriben")
          => /\ \E j \in 1..(i - 1) :
                   cmds[j].op = "copySample" /\ cmds[j].arg = filename
             /\ (magic_result # <<>> /\ ~C18_ExecOrScript(magic_result))
                => (cmds[i].arg = <<>>)
             /\ (C18_ExecOrScript(magic_result) /\ ~Arg("dontrun"))
                => (cmds[i].arg = filename)

C18_Witness ==
    /\ pc = "post"
    /\ args.mode = "file"
    /\ ~Arg("dontrun")
    /\ magic_result = PE32 \o <<" ">> \o DLL
    /\ LastOp(cmds) = "runNoriben"
    /\ cmds[Len(cmds)].arg = <<>>
    /\ "copySample" \in Ops(cmds)

\* the text of an exec / execwait line after its keyword, blanks stripped
C19_Rest(l) ==
    Strip(IF StartsWith(l, ExecwaitKw)
          THEN SubSeq(l, Len(ExecwaitKw) + 1, Len(l))
          ELSE SubSeq(l, Len(ExecKw) + 1, Len(l)))

\* the length of the first word of s
C19_WordLen(s) ==
    CHOOSE n \in 0..Len(s) :
        /\ \A j \in 1..n : ~IsSpace(s[j])
        /\ (n = Len(s) \/ IsSpace(s[n + 1]))

\* the command expected of each quote-free exec / execwait line of
\* ScriptLines, as (mode, path, arguments); <<>> for a line without path
C19_Expected ==
    [l \in { x \in ScriptLines :
               /\ StartsWith(x, ExecKw) \/ StartsWith(x, ExecwaitKw)
               /\ \A k \in 1..Len(x) : x[k] \notin {"\"", "'"} } |->
        LET rest == C19_Rest(l)
            n == C19_WordLen(rest)
        IN  IF rest = <<>> THEN <<>>
            ELSE << IF StartsWith(l, ExecwaitKw) THEN <<>> ELSE NoWait,
                    SubSeq(rest, 1, n),
                    Strip(SubSeq(rest, n + 1, Len(rest))) >>]

\* C19: a line "exec <path> [args]" or "execwait <path> [args]" (no quotes,
\* words one blank apart) issues exactly one command, with -noWait for exec
\* and without for execwait, the first word as the guest executable and the
\* rest as its arguments; a line with the keyword and no path issues no
\* command and is diagnosed; either way the next line is interpreted.
C19_ExecLine ==
    [][ (/\ pc = "script"
         /\ line_no' = line_no + 1
         /\ line' \in DOMAIN C19_Expected)
        => /\ pc' = "script"
           /\ IF C19_Expected[line'] = <<>>
              THEN line_cmds' = <<>> /\ diag' = "bad exec"
              ELSE /\ Len(line_cmds') = 1
                   /\ line_cmds'[1].op = "runScriptCommand"
                   /\ line_cmds'[1].bin = HvBin
                   /\ line_cmds'[1].arg = C19_Expected[line']
                   /\ diag' = "none"
      ]_vars

C19_Witness ==
    /\ pc = "script"
    /\ line = ExecKw \o <<"p", " ", "a", " ", "b", "\n">>
    /\ Len(line_cmds) = 1
    /\ line_cmds[1].op = "runScriptCommand"
    /\ line_cmds[1].arg = <<NoWait, <<"p">>, <<"a", " ", "b">> >>

C20_Order == <<"fileExistsInGuest", "xcopy", "zipAdd">>

\* C20: the commands of a collect are issued in the order exists-check,
\* copy to the log directory, append to the archive, each on the collected
\* path; the first that fails raises the error count by one and ends this
\* collect, a success raises nothing, and either way the interpreter goes on
\* with the following lines.
C20_CollectSequence ==
    /\ [](pc \in {"script", "cz_exists", "cz_xcopy", "cz_zip"}
          => /\ Len(line_cmds) <= Len(C20_Order)
             /\ (line_cmds # <<>> /\ line_cmds[1].op = C20_Order[1])
                => \A i \in 1..Len(line_cmds) :
                      /\ line_cmds[i].op = C20_Order[i]
                      /\ line_cmds[i].arg = source_path)
    /\ [][ (pc \in {"cz_exists", "cz_xcopy", "cz_zip"})
           => /\ Len(line_cmds') = Len(line_cmds) + 1
              /\ line_cmds'[Len(line_cmds')].op = C20_Order[Len(line_cmds')]
              /\ line_no' = line_no
              /\ IF collect_status' # 0
                 THEN error_count' = error_count + 1 /\ pc' = "script"
                 ELSE /\ error_count' = error_count
                      /\ pc' = (IF pc = "cz_exists" THEN "cz_xcopy"
                                ELSE IF pc = "cz_xcopy" THEN "cz_zip"
                                ELSE "script")
         ]_vars

C20_Witness ==
    /\ pc = "script"
    /\ line = CollectKw \o <<"a", "\n">>
    /\ line_no = 1
    /\ Len(line_cmds) = 2
    /\ collect_status # 0
    /\ error_count = 1

\* C21: the report archive is copied from the guest to the host exactly
\* when the zip command returned success and --nolog was not given; after a
\* failed zip no copyFileFromGuestToHost command is issued for the sample.
C21_CopyBackIffZipOk ==
    /\ [][ pc = "copyback"
           => IF return_code = 0 /\ ~Arg("nolog")
              THEN /\ Len(cmds') = Len(cmds) + 1
                   /\ LastOp(cmds') = "copyFileFromGuestToHost"
                   /\ SubSeq(cmds', 1, Len(cmds)) = cmds
              ELSE cmds' = cmds
         ]_vars
    /\ [](pc = "copyback" => LastOp(cmds) = "zipReport")
    /\ [](zip_failed => "copyFileFromGuestToHost" \notin Ops(cmds))

C21_Witness ==
    /\ pc = "screenshot"
    /\ zip_failed
    /\ return_code # 0
    /\ ~Arg("nolog")
    /\ LastOp(cmds) = "zipReport"

\* the stages of run_file in the order of their commands; the two ways of
\* going back to the snapshot share the first place
C22_Stages ==
    <<{"revertToSnapshot", "poweroff"}, {"restore"}, {"start"},
      {"copySample"}, {"copyNoribenPy"}, {"copyNoribenConfig"},
      {"copyVirustotalApi"}, {"deleteFileInGuest"}, {"runNoriben"},
      {"zipReport"}, {"copyFileFromGuestToHost"}, {"captureScreen"},
      {"stop"}>>

C22_Rank(op) == CHOOSE k \in 1..Len(C22_Stages) : op \in C22_Stages[k]

C22_ScriptPcs == {"script", "cz_exists", "cz_xcopy", "cz_zip"}

\* C22: the commands of one sample are issued in the fixed order revert,
\* power-on, stage, update copies, raw delete, collector run, zip, copy-back,
\* screenshot, power-off; the collector run is never issued unless power-on
\* and the sample copy succeeded; the post-execution script is interpreted
\* only after the collector run returned success, with a script path
\* supplied that exists.
C22_FixedOrder ==
    /\ \A i \in 1..Len(cmds) : \E k \in 1..Len(C22_Stages) :
          cmds[i].op \in C22_Stages[k]
    /\ \A i \in 1..(Len(cmds) - 1) :
          C22_Rank(cmds[i].op) < C22_Rank(cmds[i + 1].op)
    /\ (pc = "run" \/ "runNoriben" \in Ops(cmds))
          => {"start", "copySample"} \subseteq Ops(cmds)
    /\ pc \in C22_ScriptPcs
          => /\ LastOp(cmds) = "runNoriben"
             /\ return_code = 0
             /\ Arg("post")
             /\ post_exists
    /\ line_cmds # <<>> => post_exists

C22_Witness ==
    /\ pc = "script"
    /\ line_no = 1
    /\ line_cmds # <<>>
    /\ Len(cmds) >= 3
    /\ LastOp(cmds) = "runNoriben"

\* C23: nothing is retried: within one sample every lifecycle command is
\* issued at most once, one command per step, and a script line issues each
\* of its commands at most once.
C23_NoRetry ==
    /\ [](\A i, j \in 1..Len(cmds) : cmds[i].op = cmds[j].op => i = j)
    /\ [](\A i, j \in 1..Len(line_cmds) :
             line_cmds[i].op = line_cmds[j].op => i = j)
    /\ [][ /\ Len(cmds') <= Len(cmds) + 1
           /\ Len(line_cmds') <= Len(line_cmds) + 1
           /\ (malware_file' = malware_file /\ pc' # "exit")
                => SubSeq(cmds', 1, Len(cmds)) = cmds
         ]_vars

C23_Witness ==
    /\ pc = "shutdown"
    /\ Len(cmds) >= 5
    /\ return_code # 0
    /\ LastOp(cmds) = "captureScreen"

\* C24: every command of a sample goes to the control-plane binary of the
\* selected backend: with VirtualBox selected no command names vmrun, with
\* VMware selected no command names VBoxManage.
C24_SelectedBackendOnly ==
    /\ \A i \in 1..Len(cmds) : cmds[i].bin = HvBin
    /\ \A i \in 1..Len(line_cmds) : line_cmds[i].bin = HvBin

\* C25: under --update only the collector script is mandatory. Its absence
\* counts one error and ends the sample with no further command; its copy,
\* and the configuration and credentials files, never change the error
\* count: a failed copy prints, an absent configuration file prints, an
\* absent credentials file prints nothing, and the next stage follows.
C25_OnlyScriptMandatory ==
    [][ /\ (pc = "update" /\ Arg("update"))
           => \/ /\ pc' = "update_config"
                 /\ error_count' = error_count
                 /\ cmds' = Append(cmds, Cmd("copyNoribenPy", HvBin, <<>>))
                 /\ update_diag' = CopyDiag(return_code')
              \/ /\ pc' \in {"loop", "exit"}
                 /\ error_count' = error_count + 1
                 /\ cmds' = <<>>
                 /\ malware_file' = <<>>
        /\ (pc = "update_config")
           => /\ pc' = "update_vt"
              /\ error_count' = error_count
              /\ \/ /\ cmds' = Append(cmds, Cmd("copyNoribenConfig", HvBin, <<>>))
                    /\ update_diag' = CopyDiag(return_code')
                 \/ /\ cmds' = cmds
                    /\ return_code' = return_code
                    /\ update_diag' = "not found"
        /\ (pc = "update_vt")
           => /\ pc' = "xx"
              /\ error_count' = error_count
              /\ \/ /\ cmds' = Append(cmds, Cmd("copyVirustotalApi", HvBin, <<>>))
                    /\ update_diag' = CopyDiag(return_code')
                 \/ /\ cmds' = cmds
                    /\ return_code' = return_code
                    /\ update_diag' = "none"
      ]_vars

C25_Witness ==
    /\ pc = "xx"
    /\ Arg("update")
    /\ error_count = 0
    /\ return_code # 0
    /\ update_diag = "copy failed"
    /\ LastOp(cmds) = "copyVirustotalApi"
    /\ "copyNoribenConfig" \notin Ops(cmds)

\* the statuses of the fatal checks of main: 14 for the missing
\* configuration file, 13 for the argument errors and the file that is not
\* found, 1 for the missing binary, password or magic database
C26_FatalCodes == {14, 13, 1}

\* C26: main ends on a fatal configuration or argument error before any VM
\* interaction: while the checks run no sample was entered and no command
\* was executed, and the step that ends the process leaves it so.
C26_FatalBeforeAnyCommand ==
    /\ [](pc \in {"start", "single"}
          => /\ cmds = <<>>
             /\ line_cmds = <<>>
             /\ malware_file = <<>>
             /\ attempted = 0
             /\ idx = 0
             /\ exit_code = NoExit)
    /\ [][ (pc \in {"start", "single"} /\ pc' = "exit")
           => /\ exit_code' \in C26_FatalCodes
              /\ cmds' = <<>>
              /\ line_cmds' = <<>>
              /\ malware_file' = <<>>
              /\ attempted' = 0
         ]_vars

C26_Witness ==
    /\ pc = "exit"
    /\ exit_code = 13
    /\ args.mode = "file"
    /\ ~Arg("recursive")
    /\ cmds = <<>>
    /\ attempted = 0

\* the stages of run_file that end the sample on a failure
C27_AbortStages == {"poweron", "copy", "update", "run", "shutdown", "suspend"}

\* C27: the value run_file returns tells whether the sample failed: a step
\* that ends the sample early, with the error count incremented, returns a
\* non-zero value, and 0 is only returned from the end of the lifecycle.
C27_FaithfulReturn ==
    [][ /\ (pc \in C27_AbortStages /\ pc' \in {"loop", "exit"}
            /\ error_count' = error_count + 1)
           => run_file_response' # 0
        /\ (pc \notin {"start", "single", "dir", "loop", "exit"}
            /\ malware_file # <<>> /\ malware_file' = <<>>
            /\ run_file_response' = 0)
           => (pc = "suspend" /\ error_count' = error_count)
      ]_vars

\* C28: in a directory run the sample in run_file shares neither its guest
\* staging path nor the host path of its report archive with a different
\* file of the same host directory that run_file handled earlier in the run.
C28_DistinctPaths ==
    (args.mode = "dir" /\ malware_file # <<>> /\ attempted = idx)
    => \A k \in 1..(idx - 1) :
          (files[k] # malware_file
           /\ DirName(files[k]) = DirName(malware_file))
          => /\ \A m \in MagicResults :
                   TypeAccepted(m)
                   => StagingPath(files[k], m, dontrun) # filename
             /\ \A i \in 1..Len(cmds), structure \in ReportPathStructures :
                   (cmds[i].op = "copyFileFromGuestToHost"
                    /\ cmds[i].arg = HostReportPath(structure, malware_file))
                   => HostReportPath(structure, files[k]) # cmds[i].arg

====
